---- MODULE Spec2Model ----
(***************************************************************************)
(* ButterStick bring-up gateware: the VCCIO PWM controller (VccioCtrl,     *)
(* three variants: 02_pmod.py, 03_button.py, 04_usb.py) and the ECP5 clock *)
(* domain generator (LunaECP5DomainGenerator, 04_usb.py).                  *)
(*                                                                         *)
(* Voltages are in millivolts (3.3 V = 3300); Python floats with integral  *)
(* values are carried as integers; Python None is the empty tuple and a    *)
(* present value x is the one-element tuple <<x>>.                         *)
(***************************************************************************)
EXTENDS Integers, Sequences, FiniteSets, TLC

VARIABLES
    \* ---- VccioCtrl ----
    design,             \* which source file's VccioCtrl is built
    vccio_voltage,      \* platform.vccio_voltage(instance), per channel
    vstate,             \* "new", "elaborated", "warned" (empty module), "error"
    verror,             \* exception raised by elaborate, "none" if none
    limit,              \* the constant each pdm output is compared against
    pwm_timer,          \* Signal(14)
    pdm,                \* vccio_pins.pdm[0..2]
    en,                 \* vccio_pins.en
    win_active,         \* observer: a 2^14-tick observation window is open
    win_start,          \* observer: counter value when the window opened
    win_ticks,          \* observer: ticks seen in the window
    win_high,           \* observer: per channel, ticks with the output high
    \* ---- LunaECP5DomainGenerator ----
    clock_frequencies_arg,  \* constructor argument clock_frequencies
    clock_frequencies,      \* self.clock_frequencies
    clock_name,             \* self.clock_name
    self_clock_frequency,   \* self.clock_frequency
    default_clk_frequency,  \* platform.default_clk_frequency
    car_pc,                 \* "new", "created", "failed"
    car_error,              \* exception raised, "none" if none
    submodules,             \* names of the instances added to m.submodules
    pll,                    \* the EHXPLLL instance's parameters and ports
    clock_options,          \* self._clock_options
    generated,              \* domains whose generate_<d>_clock has been called
    clk,                    \* per domain, the signal generate_<d>_clock returned
    pll_lock,               \* self._pll_lock
    rst                     \* ResetSignal(d), per domain

vccio_vars == <<design, vccio_voltage, vstate, verror, limit, pwm_timer, pdm, en,
                win_active, win_start, win_ticks, win_high>>
car_vars == <<clock_frequencies_arg, clock_frequencies, clock_name,
              self_clock_frequency, default_clk_frequency, car_pc, car_error,
              submodules, pll, clock_options, generated, clk, pll_lock, rst>>
vars == <<vccio_vars, car_vars>>

None == <<>>
Some(x) == <<x>>
Val(o) == o[1]

(***************************************************************************)
(* Bounds of the model.                                                    *)
(***************************************************************************)
\* how many entries of VoltageList the platform's table draws from
NumVoltages == 8
\* how many entries of BoardList the running PWM model is built for
NumBoards == 4
\* how many observation windows are opened per counter period
NumWindows == 4
\* distance between the counter values at which observation windows open
WindowStride == 5461
\* how many entries of RefFreqList the reference clock draws from
NumRefFreqs == 5

Min(a, b) == IF a <= b THEN a ELSE b

\* candidate target voltages, mV: nominal rails, the two ends of the linear
\* range (limit = 0 at 3546, limit = 1 at 945) and values outside it
VoltageList == <<3300, 1800, 3546, 2500, 3600, 946, 945, 500, 1200, 3547>>
Voltages == {VoltageList[i] : i \in 1..Min(NumVoltages, Len(VoltageList))}

\* platform voltage tables (channel 0, 1, 2) used for the running PWM model
BoardList == << <<Some(3300), Some(3300), Some(1800)>>,
                <<Some(3546), Some(2500), Some(946)>>,
                <<Some(3600), Some(500),  Some(945)>>,
                <<None,       Some(3300), Some(1800)>>,
                <<Some(3300), Some(1200), None>>,
                <<Some(3547), Some(1800), Some(3300)>> >>
Boards == {BoardList[i] : i \in 1..Min(NumBoards, Len(BoardList))}

Channels == 0..2
Designs == {"02_pmod", "03_button", "04_usb"}

(***************************************************************************)
(* VccioCtrl                                                               *)
(***************************************************************************)
\* pwm_timer = Signal(14)
TimerWidth == 14
Period == 2 ^ TimerWidth

\* nearest integer to the rational num / den, den > 0
RoundHalfInt(num, den) ==
    IF num >= 0 THEN (2 * num + den) \div (2 * den)
                ELSE -((2 * (-num) + den) \div (2 * den))
\* Python int(): truncation toward zero of the rational num / den, den > 0
IntTrunc(num, den) ==
    IF num >= 0 THEN num \div den ELSE -((-num) \div den)

\* limit_float = (3.546 - voltage) / 2.601 ; return int(limit_float * 2**14)
\* with voltage in mV the product is (3546 - mv) * 2**14 / 2601
PwmTimerLimitRounded(mv) == RoundHalfInt((3546 - mv) * 2 ^ 14, 2601)
PwmTimerLimitSignFlipped(mv) == IntTrunc((mv - 3546) * 2 ^ 14, 2601)
pwm_timer_limit(mv) == IntTrunc((3546 - mv) * 2 ^ 14, 2601)

\* int(2**14 * (0.10)), int(2**14 * (0.10)), int(2**14 * (0.70))
FixedLimits == <<IntTrunc(2 ^ 14 * 10, 100), IntTrunc(2 ^ 14 * 10, 100),
                 IntTrunc(2 ^ 14 * 70, 100)>>

\* pwm_timer + 1 assigned to the 14-bit register
IncSkipZero(t) == IF t + 1 = 2 ^ 14 THEN 1 ELSE t + 1
Inc(t) == (t + 1) % (2 ^ 14)

\* pwm_timer < <constant>; Amaranth extends both operands, so the comparison
\* is the mathematical one also for constants outside the register's range
LtOrEqual(t, lim) == t <= lim
Lt(t, lim) == t < lim

\* the three comb assignments to vccio_pins.pdm[*]
Comb(t, lims) == [c \in Channels |-> Lt(t, lims[c + 1])]

Undriven == [c \in Channels |-> FALSE]

\* 04_usb.py VccioCtrl.elaborate, how it ends for a platform voltage table:
\* "warned" (warning logged, the empty module returned), "error" (an
\* exception leaves elaborate) or "elaborated" (the full module returned)
OutcomeCheckingUlpiChannel(voltage) ==
    IF voltage[3] = None THEN "warned"
    ELSE IF \E c \in Channels : voltage[c + 1] = None THEN "error"
    ELSE "elaborated"
ElaborateOutcome(voltage) ==
    IF voltage[1] = None THEN "warned"
    ELSE IF \E c \in Channels : voltage[c + 1] = None THEN "error"
    ELSE "elaborated"

\* 04_usb.py VccioCtrl.elaborate
elaborate_usb ==
    /\ design = "04_usb"
    /\ vstate = "new"
    /\ vstate' = ElaborateOutcome(vccio_voltage)
    /\ IF vstate' = "warned"
       THEN \* logging.warning(...); return m
            UNCHANGED <<verror, limit, pdm, en>>
       ELSE IF vstate' = "error"
       THEN \* 3.546 - None raises TypeError in _pwm_timer_limit
            /\ verror' = "TypeError"
            /\ UNCHANGED <<limit, pdm, en>>
       ELSE /\ limit' = <<pwm_timer_limit(Val(vccio_voltage[1])),
                          pwm_timer_limit(Val(vccio_voltage[2])),
                          pwm_timer_limit(Val(vccio_voltage[3]))>>
            /\ pdm' = Comb(pwm_timer, limit')
            /\ en' = TRUE
            /\ UNCHANGED verror
    /\ UNCHANGED <<design, vccio_voltage, pwm_timer,
                   win_active, win_start, win_ticks, win_high>>
    /\ UNCHANGED car_vars

\* 02_pmod.py VccioCtrl.elaborate
elaborate_pmod ==
    /\ design = "02_pmod"
    /\ vstate = "new"
    /\ vstate' = "elaborated"
    /\ limit' = FixedLimits
    /\ pdm' = Comb(pwm_timer, limit')
    /\ en' = TRUE
    /\ UNCHANGED <<design, vccio_voltage, verror, pwm_timer,
                   win_active, win_start, win_ticks, win_high>>
    /\ UNCHANGED car_vars

\* 03_button.py VccioCtrl.elaborate
elaborate_button ==
    /\ design = "03_button"
    /\ vstate = "new"
    /\ vstate' = "elaborated"
    /\ limit' = FixedLimits
    /\ pdm' = Comb(pwm_timer, limit')
    /\ en' = TRUE
    /\ UNCHANGED <<design, vccio_voltage, verror, pwm_timer,
                   win_active, win_start, win_ticks, win_high>>
    /\ UNCHANGED car_vars

\* one tick of the sync domain: m.d.sync += pwm_timer.eq(pwm_timer + 1), the
\* comb outputs follow the new counter value.  The observer counts the cycle
\* that ends with this tick and closes a window that has seen 2^14 cycles.
Tick ==
    /\ vstate = "elaborated"
    /\ pwm_timer' = Inc(pwm_timer)
    /\ pdm' = Comb(pwm_timer', limit)
    /\ IF win_active /\ win_ticks < Period
       THEN /\ win_ticks' = win_ticks + 1
            /\ win_high' = [c \in Channels |->
                               win_high[c] + (IF pdm[c] THEN 1 ELSE 0)]
            /\ UNCHANGED <<win_active, win_start>>
       ELSE /\ win_active' = FALSE
            /\ win_start' = 0
            /\ win_ticks' = 0
            /\ win_high' = [c \in Channels |-> 0]
    /\ UNCHANGED <<design, vccio_voltage, vstate, verror, limit, en>>
    /\ UNCHANGED car_vars

\* observer: open a window of 2^14 ticks at the current counter value
WindowStarts == {(i * WindowStride) % Period : i \in 0..(NumWindows - 1)}
StartWindow ==
    /\ vstate = "elaborated"
    /\ ~win_active
    /\ pwm_timer \in WindowStarts
    /\ win_active' = TRUE
    /\ win_start' = pwm_timer
    /\ win_ticks' = 0
    /\ win_high' = [c \in Channels |-> 0]
    /\ UNCHANGED <<design, vccio_voltage, vstate, verror, limit, pwm_timer, pdm, en>>
    /\ UNCHANGED car_vars

(***************************************************************************)
(* LunaECP5DomainGenerator                                                 *)
(***************************************************************************)
Domains == {"fast", "sync", "usb"}

\* how many entries of DomainFreqList an override may request
NumDomainFreqs == 4
DomainFreqList == <<60, 120, 240, 100, 48, 480>>
DomainFreqs == {DomainFreqList[i] : i \in 1..Min(NumDomainFreqs, Len(DomainFreqList))}

\* reference clock frequencies in Hz (Clock(f).frequency is a float)
RefFreqList == <<30000000, 60000000, 62000000, 12000000, 48000000, 100000000>>
RefFreqs == {RefFreqList[i] : i \in 1..Min(NumRefFreqs, Len(RefFreqList))}

ClockNames == {"None", "OSCG", "clk60"}

\* ButterStickPlatform.DEFAULT_CLOCK_FREQUENCIES_MHZ
DEFAULT_CLOCK_FREQUENCIES_MHZ == [fast |-> 240, sync |-> 120, usb |-> 60]
\* ButterStickPlatform.default_clk
default_clk == "clk30"
\* OSCG_DIV = 5 ; "The clock is 310 MHz by default"
OSCG_DIV == 5
OscgHz == 310000000 \div OSCG_DIV

\* str() of a Python int's digits
Digit == <<"0", "1", "2", "3", "4", "5", "6", "7", "8", "9">>
RECURSIVE DecStr(_)
DecStr(n) == IF n < 10 THEN Digit[n + 1]
                       ELSE DecStr(n \div 10) \o Digit[(n % 10) + 1]
\* str(clock_frequency): "None" for None, shortest repr "<digits>.0" for a
\* float of integral value below 1e16
Str(x) == IF x = None THEN "None" ELSE DecStr(Val(x)) \o ".0"

\* pll_params_per_freq
pll_params_per_freq ==
    ("62000000.0" :> [CLKFB_DIV |-> 4]) @@
    ("60000000.0" :> [CLKFB_DIV |-> 4]) @@
    ("30000000.0" :> [CLKFB_DIV |-> 8])

\* new_clock_frequencies = defaults.copy(); if overrides: update(overrides)
MergeDefaultsWin(defaults, overrides) ==
    [d \in (DOMAIN defaults) \cup (DOMAIN overrides) |->
        IF d \in DOMAIN defaults THEN defaults[d] ELSE overrides[d]]
MergeFrequencies(defaults, overrides) ==
    [d \in (DOMAIN defaults) \cup (DOMAIN overrides) |->
        IF d \in DOMAIN overrides THEN overrides[d] ELSE defaults[d]]

\* self._clock_options
ClockOptionsSwapped ==
    (60 :> "_clk_240MHz") @@ (120 :> "_clk_120MHz") @@ (240 :> "_clk_60MHz")
ClockOptions ==
    (60 :> "_clk_60MHz") @@ (120 :> "_clk_120MHz") @@ (240 :> "_clk_240MHz")

\* Instance("EHXPLLL", ...): the ports and the dividers that set frequencies
EHXPLLL(input_clock, params) ==
    [ CLKI        |-> input_clock,
      CLKOP       |-> "_clk_240MHz",
      CLKOS       |-> "_clk_120MHz",
      CLKOS2      |-> "_clk_60MHz",
      LOCK        |-> "_pll_lock",
      CLKOS2_DIV  |-> 8,
      CLKOS_DIV   |-> 4,
      CLKOP_DIV   |-> 2,
      CLKFB_DIV   |-> params.CLKFB_DIV,
      CLKI_DIV    |-> 1,
      FEEDBK_PATH |-> "CLKOP",
      CLKFB       |-> "_clk_240MHz" ]

\* ResetSignal(d).eq(~self._pll_lock)
ResetSameAsLock(lock) == lock
ResetOf(lock) == ~lock

\* self._clock_options[self.clock_frequencies[d]]: the signal, or None where
\* the dict lookup raises KeyError
LookupWithFallback(options, freq) ==
    IF freq \in DOMAIN options THEN Some(options[freq]) ELSE Some(options[60])
Lookup(options, freq) ==
    IF freq \in DOMAIN options THEN Some(options[freq]) ELSE None

create_submodules ==
    /\ car_pc = "new"
    /\ LET new_clock_frequencies ==
               MergeFrequencies(DEFAULT_CLOCK_FREQUENCIES_MHZ, clock_frequencies)
           name == IF clock_name # "None" THEN clock_name ELSE default_clk
           given == IF clock_name # "None" THEN self_clock_frequency
                                           ELSE default_clk_frequency
           \* clock_frequency = 62.0 on the OSCG path
           clock_frequency == IF name = "OSCG" THEN Some(62) ELSE given
           input_clock == IF name = "OSCG" THEN "OSC" ELSE name
           oscg == IF name = "OSCG" THEN {"OSCG"} ELSE {}
       IN  /\ clock_frequencies' = new_clock_frequencies
           /\ clock_options' = ClockOptions
           /\ IF Str(clock_frequency) \notin DOMAIN pll_params_per_freq
              THEN \* raise ValueError(... clock_frequency/1e6 ...); the
                   \* division itself raises TypeError for None
                   /\ car_pc' = "failed"
                   /\ car_error' = IF clock_frequency = None THEN "TypeError"
                                                             ELSE "ValueError"
                   /\ submodules' = oscg
                   /\ UNCHANGED <<pll, rst>>
              ELSE /\ car_pc' = "created"
                   /\ pll' = Some(EHXPLLL(input_clock,
                                  pll_params_per_freq[Str(clock_frequency)]))
                   /\ submodules' = oscg \cup {"pll"}
                   /\ rst' = [rst EXCEPT !["sync"] = ResetOf(pll_lock),
                                         !["fast"] = ResetOf(pll_lock)]
                   /\ UNCHANGED car_error
    /\ UNCHANGED <<clock_frequencies_arg, clock_name, self_clock_frequency,
                   default_clk_frequency, generated, clk, pll_lock>>
    /\ UNCHANGED vccio_vars

\* generate_<d>_clock: return self._clock_options[self.clock_frequencies[d]]
generate_clock(d) ==
    /\ car_pc = "created"
    /\ d \notin generated
    /\ generated' = generated \cup {d}
    /\ LET signal == Lookup(clock_options, clock_frequencies[d])
       IN  IF signal = None
           THEN /\ car_pc' = "failed"
                /\ car_error' = "KeyError"
                /\ UNCHANGED clk
           ELSE /\ clk' = [clk EXCEPT ![d] = signal]
                /\ UNCHANGED <<car_pc, car_error>>
    /\ UNCHANGED <<clock_frequencies_arg, clock_frequencies, clock_name,
                   self_clock_frequency, default_clk_frequency, submodules,
                   pll, clock_options, pll_lock, rst>>
    /\ UNCHANGED vccio_vars

generate_usb_clock == generate_clock("usb")
generate_sync_clock == generate_clock("sync")
generate_fast_clock == generate_clock("fast")

\* the built design running: the PLL's LOCK output rises or falls, and the
\* comb reset assignments follow it in the same cycle.  ResetSignal("usb")
\* has no driver in this generator; its value is whatever its driver outside
\* this generator puts on it.
LockChange ==
    /\ car_pc = "created"
    /\ generated = Domains
    /\ \E lock \in BOOLEAN, usb_rst \in BOOLEAN :
          /\ pll_lock' = lock
          /\ rst' = [sync |-> ResetOf(lock), fast |-> ResetOf(lock),
                     usb |-> usb_rst]
    /\ UNCHANGED <<clock_frequencies_arg, clock_frequencies, clock_name,
                   self_clock_frequency, default_clk_frequency, car_pc,
                   car_error, submodules, pll, clock_options, generated, clk>>
    /\ UNCHANGED vccio_vars

\* frequency in Hz on port o of the PLL p fed with ref_hz on CLKI: the loop
\* locks the feedback path's output (divided by CLKFB_DIV) to the reference
\* (divided by CLKI_DIV); every output is the VCO divided by its own divider
PortHz(p, ref_hz, o) ==
    LET fb_div == IF p.FEEDBK_PATH = "CLKOP" THEN p.CLKOP_DIV
                  ELSE IF p.FEEDBK_PATH = "CLKOS" THEN p.CLKOS_DIV
                  ELSE p.CLKOS2_DIV
        vco == (ref_hz \div p.CLKI_DIV) * p.CLKFB_DIV * fb_div
    IN  IF o = "CLKOP" THEN vco \div p.CLKOP_DIV
        ELSE IF o = "CLKOS" THEN vco \div p.CLKOS_DIV
        ELSE vco \div p.CLKOS2_DIV

\* frequency in Hz of the clock on the PLL's CLKI pin
InputHz ==
    IF clock_name = "OSCG" THEN OscgHz
    ELSE IF clock_name # "None" THEN Val(self_clock_frequency)
    ELSE Val(default_clk_frequency)

(***************************************************************************)
(* Specifications                                                          *)
(***************************************************************************)
VccioIdle ==
    /\ design = "04_usb"
    /\ vccio_voltage = BoardList[1]
    /\ vstate = "new"
    /\ verror = "none"
    /\ limit = <<0, 0, 0>>
    /\ pwm_timer = 0
    /\ pdm = Undriven
    /\ en = FALSE
    /\ win_active = FALSE
    /\ win_start = 0
    /\ win_ticks = 0
    /\ win_high = [c \in Channels |-> 0]

CarIdle ==
    /\ clock_frequencies_arg = <<>>
    /\ clock_frequencies = <<>>
    /\ clock_name = "None"
    /\ self_clock_frequency = None
    /\ default_clk_frequency = Some(RefFreqList[1])
    /\ car_pc = "new"
    /\ car_error = "none"
    /\ submodules = {}
    /\ pll = None
    /\ clock_options = <<>>
    /\ generated = {}
    /\ clk = [d \in Domains |-> None]
    /\ pll_lock = FALSE
    /\ rst = [d \in Domains |-> FALSE]

\* the override mappings a caller may pass: any subset of the domains, each
\* mapped to a requested frequency (the empty mapping stands for None and {})
Overrides == UNION {[S -> DomainFreqs] : S \in SUBSET Domains}

\* the domain generator: constructed with its arguments, not yet elaborated
Init ==
    /\ VccioIdle
    /\ clock_frequencies_arg \in Overrides
    /\ clock_frequencies = clock_frequencies_arg
    /\ clock_name \in ClockNames
    /\ self_clock_frequency \in
           IF clock_name = "clk60" THEN {None} \cup {Some(f) : f \in RefFreqs}
                                   ELSE {None}
    /\ default_clk_frequency \in {Some(f) : f \in RefFreqs}
    /\ car_pc = "new"
    /\ car_error = "none"
    /\ submodules = {}
    /\ pll = None
    /\ clock_options = <<>>
    /\ generated = {}
    /\ clk = [d \in Domains |-> None]
    /\ pll_lock = FALSE
    /\ rst = [d \in Domains |-> FALSE]

Next ==
    \/ create_submodules
    \/ generate_usb_clock
    \/ generate_sync_clock
    \/ generate_fast_clock
    \/ LockChange

Spec == Init /\ [][Next]_vars

\* VccioCtrl elaborated and running, for the three source files and the
\* platform voltage tables of Boards
InitPwm ==
    /\ CarIdle
    /\ design \in Designs
    /\ vccio_voltage \in (IF design = "04_usb" THEN Boards ELSE {BoardList[1]})
    /\ vstate = "new"
    /\ verror = "none"
    /\ limit = <<0, 0, 0>>
    /\ pwm_timer = 0
    /\ pdm = Undriven
    /\ en = FALSE
    /\ win_active = FALSE
    /\ win_start = 0
    /\ win_ticks = 0
    /\ win_high = [c \in Channels |-> 0]

NextPwm ==
    \/ elaborate_usb
    \/ elaborate_pmod
    \/ elaborate_button
    \/ Tick
    \/ StartWindow

SpecPwm == InitPwm /\ [][NextPwm]_vars

\* VccioCtrl.elaborate over every platform voltage table drawn from Voltages
\* and None
InitElab ==
    /\ CarIdle
    /\ design \in Designs
    /\ vccio_voltage \in
           (IF design = "04_usb"
            THEN [1..3 -> {None} \cup {Some(v) : v \in Voltages}]
            ELSE {BoardList[1]})
    /\ vstate = "new"
    /\ verror = "none"
    /\ limit = <<0, 0, 0>>
    /\ pwm_timer = 0
    /\ pdm = Undriven
    /\ en = FALSE
    /\ win_active = FALSE
    /\ win_start = 0
    /\ win_ticks = 0
    /\ win_high = [c \in Channels |-> 0]

NextElab ==
    \/ elaborate_usb
    \/ elaborate_pmod
    \/ elaborate_button

SpecElab == InitElab /\ [][NextElab]_vars

(***************************************************************************)
(* Properties                                                              *)
(***************************************************************************)
\* the frequency selected for domain d: the caller's override where the
\* mapping names d, the board default otherwise
Selected(d) ==
    IF d \in DOMAIN clock_frequencies_arg THEN clock_frequencies_arg[d]
    ELSE DEFAULT_CLOCK_FREQUENCIES_MHZ[d]
Taps == {60, 120, 240}
TapPort(mhz) == IF mhz = 240 THEN "CLKOP" ELSE IF mhz = 120 THEN "CLKOS" ELSE "CLKOS2"
\* the PLL output port a signal is connected to
PortOf(signal) == CHOOSE o \in {"CLKOP", "CLKOS", "CLKOS2"} : Val(pll)[o] = signal
\* limit_float in [0, 1): 0 <= 3546 - mv < 2601
InLinearRange(mv) == 945 < mv /\ mv <= 3546
Clamp(x, lo, hi) == IF x < lo THEN lo ELSE IF x > hi THEN hi ELSE x

\* C1 (as amended): once create_submodules has instantiated the PLL, the
\* resets of the sync and fast domains equal NOT(pll_lock) in every state,
\* whatever the lock signal does; the usb domain's reset is not among the
\* signals this generator drives from the lock.
C1_SyncFastResetIsNotLock ==
    pll # None => /\ rst["sync"] = ~pll_lock
                  /\ rst["fast"] = ~pll_lock
\* C1 witness: the built design with the PLL locked and both resets released
C1_Witness ==
    /\ generated = Domains
    /\ car_pc = "created"
    /\ pll_lock
    /\ ~rst["sync"]
    /\ ~rst["fast"]
\* C1 as stated: the reset of every derived domain, usb included, is NOT(lock)
C1_Original ==
    pll # None => \A d \in Domains : rst[d] = ~pll_lock

C3_CounterIsTicksModPeriod ==
    /\ pwm_timer \in 0..(2 ^ 14 - 1)
    /\ win_active =>
          /\ pwm_timer = (win_start + win_ticks) % (2 ^ 14)
          /\ (pwm_timer = win_start <=> win_ticks \in {0, 2 ^ 14})
\* C3 witness: a window opened at 16383 saw the wrap to 0 on its first tick
C3_Witness ==
    /\ win_active /\ win_start = 2 ^ 14 - 1
    /\ win_ticks = 1 /\ pwm_timer = 0

\* C4 as stated: after create_submodules, a reference of 30 MHz or 60 MHz,
\* or the 62 MHz oscillator selected by the clock name "OSCG", has the PLL
\* instantiated with its record's CLKFB_DIV (8, 4, 4); every other reference
\* frequency ends in ValueError with no PLL.
C4_Original ==
    car_pc # "new" =>
        LET given == IF clock_name = "None" THEN default_clk_frequency
                                            ELSE self_clock_frequency
        IN  IF clock_name = "OSCG"
            THEN pll # None /\ Val(pll).CLKFB_DIV = 4 /\ "pll" \in submodules
            ELSE IF given = None THEN TRUE
            ELSE IF Val(given) \in {30000000, 60000000, 62000000}
            THEN /\ pll # None
                 /\ "pll" \in submodules
                 /\ Val(pll).CLKFB_DIV = (IF Val(given) = 30000000 THEN 8 ELSE 4)
            ELSE /\ pll = None
                 /\ "pll" \notin submodules
                 /\ car_error = "ValueError"
\* C4 without the oscillator path: what the lookup does for named and
\* default clocks
C4_ExceptOscg ==
    clock_name # "OSCG" => C4_Original

\* C5: a domain whose selected frequency is not 60, 120 or 240 makes its
\* generate_<d>_clock raise KeyError and return no signal; no domain is ever
\* given a clock for a frequency outside {60, 120, 240}; and when all three
\* selected frequencies are taps no KeyError is raised and, once the three
\* generate calls have run, every domain has its clock.
C5_DomainFrequencyValidation ==
    /\ \A d \in Domains :
          /\ (d \in generated /\ Selected(d) \notin Taps)
                 => car_pc = "failed" /\ car_error = "KeyError" /\ clk[d] = None
          /\ clk[d] # None => Selected(d) \in Taps
    /\ (\A d \in Domains : Selected(d) \in Taps) =>
          /\ car_error # "KeyError"
          /\ generated = Domains =>
                 car_pc = "created" /\ \A d \in Domains : clk[d] # None
\* C5 witness: sync = 100 requested; usb got its clock, then
\* generate_sync_clock failed
C5_Witness ==
    /\ "sync" \in DOMAIN clock_frequencies_arg
    /\ clock_frequencies_arg["sync"] = 100
    /\ "sync" \in generated
    /\ car_error = "KeyError"
    /\ clk["sync"] = None
    /\ clk["usb"] # None

\* C8: after create_submodules the frequency of each domain is the override
\* where the caller's mapping names the domain and the board default
\* otherwise, and the signal generate_<d>_clock returned is the one wired to
\* the PLL output of that frequency: 240 -> CLKOP, 120 -> CLKOS, 60 -> CLKOS2.
C8_DomainToTap ==
    car_pc # "new" =>
        \A d \in Domains :
            /\ d \in DOMAIN clock_frequencies
            /\ clock_frequencies[d] = Selected(d)
            /\ clk[d] # None =>
                  /\ pll # None
                  /\ Val(pll)[TapPort(Selected(d))] = Val(clk[d])
\* C8 witness: fast overridden to 60 and given CLKOS2's signal, sync not
\* named by the override and given the default 120 MHz signal on CLKOS
C8_Witness ==
    /\ DOMAIN clock_frequencies_arg = {"fast"}
    /\ clock_frequencies_arg["fast"] = 60
    /\ clk["fast"] = Some("_clk_60MHz")
    /\ clk["sync"] = Some("_clk_120MHz")
    /\ Val(pll).CLKOS2 = "_clk_60MHz"
    /\ Val(pll).CLKOS = "_clk_120MHz"

\* the three taps of the instantiated PLL run at op, os and os2 MHz
TapsAre(op, os, os2) ==
    /\ PortHz(Val(pll), InputHz, "CLKOP") = op * 1000000
    /\ PortHz(Val(pll), InputHz, "CLKOS") = os * 1000000
    /\ PortHz(Val(pll), InputHz, "CLKOS2") = os2 * 1000000
\* every domain that has its clock runs at the frequency it requested
DomainsRunAtRequest ==
    \A d \in Domains :
        clk[d] # None =>
            PortHz(Val(pll), InputHz, PortOf(Val(clk[d]))) = Selected(d) * 1000000

\* C9 (as amended): with a 60 MHz reference CLKFB_DIV is 4, with a 30 MHz
\* reference it is 8, and in both cases the taps run at 240, 120 and 60 MHz
\* and every domain runs at the frequency it requested; with the 62 MHz
\* table entry (CLKFB_DIV 4) the taps run at 248, 124 and 62 MHz.
C9_TapFrequencies ==
    pll # None =>
        /\ InputHz \in {30000000, 60000000, 62000000}
        /\ InputHz = 60000000 => Val(pll).CLKFB_DIV = 4
        /\ InputHz = 30000000 => Val(pll).CLKFB_DIV = 8
        /\ InputHz \in {30000000, 60000000} =>
               TapsAre(240, 120, 60) /\ DomainsRunAtRequest
        /\ InputHz = 62000000 =>
               Val(pll).CLKFB_DIV = 4 /\ TapsAre(248, 124, 62)
\* C9 witness: the scenario, reference 60 MHz and the three domains wired
\* with usb = 60, sync = 120, fast = 240
C9_Witness ==
    /\ pll # None
    /\ InputHz = 60000000
    /\ generated = Domains
    /\ car_pc = "created"
    /\ \A d \in Domains : Selected(d) = DEFAULT_CLOCK_FREQUENCIES_MHZ[d]
\* C9 as stated: for every reference frequency of the table the taps are
\* 240, 120 and 60 MHz and every domain runs at the frequency it requested
C9_Original ==
    pll # None =>
        /\ InputHz = 60000000 => Val(pll).CLKFB_DIV = 4
        /\ TapsAre(240, 120, 60)
        /\ DomainsRunAtRequest

\* C6 (as amended): VccioCtrl.elaborate of 04_usb.py with channel 0
\* unconfigured logs a warning and completes with the empty module, the
\* PWM outputs and the enable line undriven and no error raised; with
\* channel 0 configured and channel 1 or 2 unconfigured it ends in an
\* exception (TypeError) with nothing driven; only with all three channels
\* configured are the outputs and the enable line driven.
C6_MissingVoltage ==
    (design = "04_usb" /\ vstate # "new") =>
        IF vccio_voltage[1] = None
        THEN vstate = "warned" /\ verror = "none" /\ pdm = Undriven /\ ~en
        ELSE IF vccio_voltage[2] = None \/ vccio_voltage[3] = None
        THEN vstate = "error" /\ verror = "TypeError" /\ pdm = Undriven /\ ~en
        ELSE vstate = "elaborated" /\ verror = "none" /\ en
\* C6 witness: channel 0 unconfigured, the ULPI channel configured, and
\* elaborate returned with a warning only
C6_Witness ==
    /\ design = "04_usb"
    /\ vccio_voltage[1] = None
    /\ vccio_voltage[3] # None
    /\ vstate = "warned"
    /\ ~en
\* C6 as stated: a missing voltage on any channel ends elaborate in a fatal
\* error; it never completes with the outputs and the enable line undriven
C6_Original ==
    (design = "04_usb" /\ vstate # "new"
        /\ \E c \in Channels : vccio_voltage[c + 1] = None)
    => vstate = "error" /\ verror # "none"

C10_ThresholdMonotone ==
    (design = "04_usb" /\ vstate = "elaborated") =>
        \A i, j \in Channels :
            LET v1 == Val(vccio_voltage[i + 1])
                v2 == Val(vccio_voltage[j + 1])
                t1 == limit[i + 1]
                t2 == limit[j + 1]
            IN  (InLinearRange(v1) /\ InLinearRange(v2) /\ v1 <= v2) =>
                    /\ t1 >= t2
                    /\ t1 * 2601 <= (3546 - v1) * 16384
                    /\ (3546 - v1) * 16384 < (t1 + 1) * 2601
                    /\ (v1 = 3300 => t1 = 1549)
\* C10 witness: 1.8 V and 3.3 V on two channels, thresholds 10998 and 1549
C10_Witness ==
    /\ design = "04_usb" /\ vstate = "elaborated"
    /\ vccio_voltage[1] = Some(1800) /\ limit[1] = 10998
    /\ vccio_voltage[2] = Some(3300) /\ limit[2] = 1549
    /\ vccio_voltage[3] = Some(2500) /\ limit[3] < limit[1] /\ limit[3] > limit[2]

====
